---- MODULE Spec2Model ----
(***************************************************************************)
(* The control-method execution engine of lai (src/src/exec.c): the        *)
(* iterative dispatcher acpi_exec_run with its execution stack and operand *)
(* stack, the reducer acpi_exec_reduce and method entry acpi_exec_method.  *)
(*                                                                         *)
(* One run of the model is one call of acpi_exec_method on a method whose  *)
(* AML body is fixed in the initial state.  Every dispatcher action is one *)
(* iteration of the while loop of acpi_exec_run.  Offsets into the body    *)
(* are zero-based as in the C code; the body itself is a TLA+ sequence, so *)
(* the byte at offset k is method[k + 1].  A read of the body at or past   *)
(* offset size is a read outside the buffer: it yields a byte of one of    *)
(* the memories of PastBytes.  64-bit integers are eight-byte              *)
(* little-endian tuples.                                                   *)
(*                                                                         *)
(* The helpers of the namespace, parser and object library that exec.c     *)
(* calls (acpi_parse_pkgsize, acpi_eval_integer, acpi_eval_object,         *)
(* acpi_write_object, acpi_is_name) are modelled from the AML encoding for *)
(* integer and string constants, locals, arguments and the null target.    *)
(* The namespace holds no object, so a name is an undefined reference; an  *)
(* opcode handed to a declaration or arithmetic helper outside exec.c ends *)
(* the modelled part of the run (pc = "delegated").  cond_taken is kept as *)
(* the truth value of predicate.integer.  The 'unexpected                  *)
(* acpi_stackitem_t' panic has no action: every item pushed is of one of   *)
(* the four kinds.                                                         *)
(***************************************************************************)
EXTENDS Integers, Sequences, FiniteSets, TLC

VARIABLES method,      \* AML body of the method (state->handle->pointer)
          i,           \* instruction pointer of acpi_exec_run
          stack,       \* live part of state->stack, bottom first
          stack_ptr,   \* state->stack_ptr
          opstack,     \* live part of state->opstack, bottom first
          opstack_ptr, \* state->opstack_ptr
          local,       \* state->local[0..7]
          arg,         \* state->arg[0..6]
          retvalue,    \* state->retvalue
          pc,          \* "entry", "run", "done", "panic" or "delegated"
          handle,      \* path of the method being executed (state->handle->path)
          frames,      \* callers suspended in acpi_methodinvoke, outermost first
          warnings,    \* number of acpi_warn calls so far
          err,         \* message of the acpi_panic that ended the run
          iftaken,     \* history: outcome of the last predicate of each If
          last         \* history: what the last step did

vars == <<method, i, stack, stack_ptr, opstack, opstack_ptr, local, arg,
          retvalue, pc, handle, frames, warnings, err, iftaken, last>>

size == Len(method)

----------------------------------------------------------------------------
(* Opcode bytes (lai.h, ACPI specification section 20.3). *)
ZERO_OP == 0
ONE_OP == 1
BYTEPREFIX == 10
WORDPREFIX == 11
DWORDPREFIX == 12
STRINGPREFIX == 13
QWORDPREFIX == 14
PACKAGE_OP == 18
EXTOP_PREFIX == 91
LOCAL0_OP == 96
ARG0_OP == 104
SLEEP_OP == 34
NAME_OP == 8
INCREMENT_OP == 117
DECREMENT_OP == 118
DIVIDE_OP == 120
DWORDFIELD_OP == 138
WORDFIELD_OP == 139
BYTEFIELD_OP == 140
STORE_OP == 112
ADD_OP == 114
SUBTRACT_OP == 116
MULTIPLY_OP == 119
SHL_OP == 121
SHR_OP == 122
AND_OP == 123
OR_OP == 125
XOR_OP == 127
NOT_OP == 128
CONTINUE_OP == 159
IF_OP == 160
ELSE_OP == 161
WHILE_OP == 162
NOP_OP == 163
RETURN_OP == 164
BREAK_OP == 165
ONES_OP == 255

(* Capacities of the two stacks. *)
OPSTACK_SIZE == 16
STACK_SIZE == 16

----------------------------------------------------------------------------
(* 64-bit unsigned integers as eight bytes, least significant first. *)
U64(n) == [k \in 1..8 |-> IF k = 1 THEN n % 256 ELSE IF k = 2 THEN (n \div 256) % 256 ELSE 0]

Zero64 == U64(0)

Ones64 == [k \in 1..8 |-> 255]

IsZero64(a) == a = Zero64

RECURSIVE BitOp(_, _, _, _)
BitOp(f, a, b, n) ==
    IF n = 0 THEN 0
    ELSE (IF f = "and" THEN (a % 2) * (b % 2)
          ELSE IF f = "or" THEN (IF (a % 2) + (b % 2) > 0 THEN 1 ELSE 0)
          ELSE ((a % 2) + (b % 2)) % 2)
         + 2 * BitOp(f, a \div 2, b \div 2, n - 1)

Bitwise64(f, a, b) == [k \in 1..8 |-> BitOp(f, a[k], b[k], 8)]

Not64(a) == [k \in 1..8 |-> 255 - a[k]]

RECURSIVE Carry(_, _, _, _)
(* carry into byte k of a + b + c0 *)
Carry(a, b, c0, k) ==
    IF k = 1 THEN c0 ELSE (a[k - 1] + b[k - 1] + Carry(a, b, c0, k - 1)) \div 256

AddC64(a, b, c0) == [k \in 1..8 |-> (a[k] + b[k] + Carry(a, b, c0, k)) % 256]

(* An addition carried out in 32 bits. *)
Add64_In32Bits(a, b) == [k \in 1..8 |-> IF k <= 4 THEN AddC64(a, b, 0)[k] ELSE 0]

Add64(a, b) == AddC64(a, b, 0)

Sub64(a, b) == AddC64(a, Not64(b), 1)

RECURSIVE ColSum(_, _, _, _)
(* sum of a[j] * b[k + 1 - j] for j in 1..n *)
ColSum(a, b, k, n) ==
    IF n = 0 THEN 0 ELSE a[n] * b[k + 1 - n] + ColSum(a, b, k, n - 1)

RECURSIVE MulCarry(_, _, _)
MulCarry(a, b, k) ==
    IF k = 1 THEN 0 ELSE (ColSum(a, b, k - 1, k - 1) + MulCarry(a, b, k - 1)) \div 256

Mul64(a, b) == [k \in 1..8 |-> (ColSum(a, b, k, k) + MulCarry(a, b, k)) % 256]

RECURSIVE Pow2(_)
Pow2(n) == IF n = 0 THEN 1 ELSE 2 * Pow2(n - 1)

(* a << n and a >> n for n < 64: whole bytes, then bits across bytes. *)
ShlN(a, n) ==
    LET q == n \div 8
        r == n % 8
    IN [k \in 1..8 |->
          ((IF k - q >= 1 THEN a[k - q] * Pow2(r) ELSE 0) % 256)
          + (IF k - q - 1 >= 1 THEN a[k - q - 1] \div Pow2(8 - r) ELSE 0)]

ShrN(a, n) ==
    LET q == n \div 8
        r == n % 8
    IN [k \in 1..8 |->
          (IF k + q <= 8 THEN a[k + q] \div Pow2(r) ELSE 0)
          + (IF k + q + 1 <= 8 THEN (a[k + q + 1] * Pow2(8 - r)) % 256 ELSE 0)]

(* A shift count of 64 or more is undefined in C: any result. *)
ShiftCountDefined(b) == b[1] < 64 /\ \A k \in 2..8 : b[k] = 0

----------------------------------------------------------------------------
(* Values (acpi_object_t). *)
ZeroObject == [type |-> "None", integer |-> Zero64, string |-> <<>>]

IntObject(v) == [type |-> "Integer", integer |-> v, string |-> <<>>]

StrObject(s) == [type |-> "String", integer |-> Zero64, string |-> s]

PkgObject == [type |-> "Package", integer |-> Zero64, string |-> <<>>]

----------------------------------------------------------------------------
(* Strings are the tuples of their bytes; the terminating zero is not kept. *)
CharAt(s, k) == IF k <= Len(s) THEN s[k] ELSE 0

(* acpi_strcmp: 0 when the strings agree up to and with the terminator. *)
RECURSIVE acpi_strcmp_from(_, _, _)
acpi_strcmp_from(s1, s2, k) ==
    IF CharAt(s1, k) # CharAt(s2, k) THEN 1
    ELSE IF CharAt(s1, k) = 0 THEN 0
    ELSE acpi_strcmp_from(s1, s2, k + 1)

acpi_strcmp(s1, s2) == acpi_strcmp_from(s1, s2, 1)

(* "Windows 20" followed by s *)
Windows20(s) == <<87, 105, 110, 100, 111, 119, 115, 32, 50, 48>> \o s

supported_osi_strings ==
    <<Windows20(<<48, 48>>),                   \* "Windows 2000"
      Windows20(<<48, 49>>),                   \* "Windows 2001"
      Windows20(<<48, 49, 32, 83, 80, 49>>),   \* "Windows 2001 SP1"
      Windows20(<<48, 49, 46, 49>>),           \* "Windows 2001.1"
      Windows20(<<48, 54>>),                   \* "Windows 2006"
      Windows20(<<48, 54, 46, 49>>),           \* "Windows 2006.1"
      Windows20(<<48, 54, 32, 83, 80, 49>>),   \* "Windows 2006 SP1"
      Windows20(<<48, 54, 32, 83, 80, 50>>),   \* "Windows 2006 SP2"
      Windows20(<<48, 57>>),                   \* "Windows 2009"
      Windows20(<<49, 50>>),                   \* "Windows 2012"
      Windows20(<<49, 51>>),                   \* "Windows 2013"
      Windows20(<<49, 53>>)>>                  \* "Windows 2015"

Linux == <<76, 105, 110, 117, 120>>

(* "Microsoft Windows NT" *)
acpi_emulated_os ==
    <<77, 105, 99, 114, 111, 115, 111, 102, 116, 32,
      87, 105, 110, 100, 111, 119, 115, 32, 78, 84>>

acpi_implemented_version == 2

(* The paths acpi_exec_method answers itself: \._OSI, \._OS_ and \._REV. *)
OsiPath == <<92, 46, 95, 79, 83, 73>>

OsPath == <<92, 46, 95, 79, 83, 95>>

RevPath == <<92, 46, 95, 82, 69, 86>>

(* osi_return when a table entry matches: 0xFFFFFFFF in 32 bits. *)
OsiSupported == [k \in 1..8 |-> IF k <= 4 THEN 255 ELSE 0]

(* A loop over the table that stops one entry early. *)
OsiEntries_OneShort == Len(supported_osi_strings) - 1

(* sizeof(supported_osi_strings) / sizeof(uintptr_t) *)
OsiEntries == Len(supported_osi_strings)

(* The loop over the table from entry k on: the value of osi_return. *)
RECURSIVE OsiScan(_, _)
OsiScan(s, k) ==
    IF k > OsiEntries THEN Zero64
    ELSE IF acpi_strcmp(s, supported_osi_strings[k]) = 0 THEN OsiSupported
    ELSE OsiScan(s, k + 1)

----------------------------------------------------------------------------
(* Reading the AML body.  pb names what is found outside the buffer by *)
(* its first byte: memory filled with Zero, memory filled with Else,   *)
(* or the bytes of While(One) {} one after the other.                  *)
PastBytes == {ZERO_OP, ELSE_OP, WHILE_OP}

Byte(k, pb) ==
    IF k >= 0 /\ k < size THEN method[k + 1]
    ELSE IF pb = WHILE_OP /\ k >= size THEN <<WHILE_OP, 2, ONE_OP>>[((k - size) % 3) + 1]
    ELSE pb

(* acpi_parse_pkgsize: PkgLength; the two top bits of the lead byte count *)
(* the bytes that follow it.  Yields the encoding's length and the size.  *)
acpi_parse_pkgsize(k, pb) ==
    LET lead == Byte(k, pb)
        n == lead \div 64
    IN IF n = 0
       THEN [bytes |-> 1, pkgsize |-> lead % 64]
       ELSE [bytes |-> n + 1,
             pkgsize |-> (lead % 16) + 16 * Byte(k + 1, pb)
                         + (IF n >= 2 THEN 4096 * Byte(k + 2, pb) ELSE 0)
                         + (IF n >= 3 THEN 1048576 * Byte(k + 3, pb) ELSE 0)]

(* acpi_eval_integer: the integer at offset k and the bytes it takes; 0 *)
(* bytes when no integer starts there.                                  *)
IntegerWidth(b) ==
    IF b = BYTEPREFIX THEN 1 ELSE IF b = WORDPREFIX THEN 2
    ELSE IF b = DWORDPREFIX THEN 4 ELSE 8

acpi_eval_integer(k, pb) ==
    LET b == Byte(k, pb) IN
    IF b = ZERO_OP THEN [bytes |-> 1, integer |-> Zero64]
    ELSE IF b = ONE_OP THEN [bytes |-> 1, integer |-> U64(1)]
    ELSE IF b = ONES_OP THEN [bytes |-> 1, integer |-> Ones64]
    ELSE IF b \in {BYTEPREFIX, WORDPREFIX, DWORDPREFIX, QWORDPREFIX}
    THEN [bytes |-> 1 + IntegerWidth(b),
          integer |-> [j \in 1..8 |-> IF j <= IntegerWidth(b) THEN Byte(k + j, pb) ELSE 0]]
    ELSE [bytes |-> 0, integer |-> Zero64]

RECURSIVE StringLen(_, _)
(* bytes of the null-terminated string at offset k, the terminator not counted *)
StringLen(k, pb) ==
    IF Byte(k, pb) = 0 \/ k > size THEN 0 ELSE 1 + StringLen(k + 1, pb)

IsLocalOp(b) == b >= LOCAL0_OP /\ b <= LOCAL0_OP + 7

IsArgOp(b) == b >= ARG0_OP /\ b <= ARG0_OP + 6

(* acpi_eval_object: evaluates the one expression at offset k.  ok is FALSE *)
(* where the evaluator panics on an opcode that starts no expression.       *)
acpi_eval_object(k, pb) ==
    LET b == Byte(k, pb) IN
    IF acpi_eval_integer(k, pb).bytes > 0
    THEN [ok |-> TRUE, bytes |-> acpi_eval_integer(k, pb).bytes,
          value |-> IntObject(acpi_eval_integer(k, pb).integer)]
    ELSE IF b = STRINGPREFIX
    THEN [ok |-> TRUE, bytes |-> StringLen(k + 1, pb) + 2,
          value |-> StrObject([j \in 1..StringLen(k + 1, pb) |-> Byte(k + j, pb)])]
    ELSE IF IsLocalOp(b)
    THEN [ok |-> TRUE, bytes |-> 1, value |-> local[b - LOCAL0_OP]]
    ELSE IF IsArgOp(b)
    THEN [ok |-> TRUE, bytes |-> 1, value |-> arg[b - ARG0_OP]]
    ELSE [ok |-> FALSE, bytes |-> 0, value |-> ZeroObject]

(* acpi_write_object: stores obj through the target at offset k: the null *)
(* target (Zero), a local or an argument.                                 *)
acpi_write_object(k, pb, obj) ==
    LET b == Byte(k, pb) IN
    IF b = ZERO_OP THEN [ok |-> TRUE, bytes |-> 1, local |-> local, arg |-> arg]
    ELSE IF IsLocalOp(b)
    THEN [ok |-> TRUE, bytes |-> 1,
          local |-> [local EXCEPT ![b - LOCAL0_OP] = obj], arg |-> arg]
    ELSE IF IsArgOp(b)
    THEN [ok |-> TRUE, bytes |-> 1,
          local |-> local, arg |-> [arg EXCEPT ![b - ARG0_OP] = obj]]
    ELSE [ok |-> FALSE, bytes |-> 0, local |-> local, arg |-> arg]

(* acpi_is_name: bytes that start a name string. *)
acpi_is_name(b) ==
    \/ b >= 65 /\ b <= 90
    \/ b \in {46, 47, 92, 94, 95}

----------------------------------------------------------------------------
(* AML encoders.  A package length below 64 is one byte and counts itself. *)
While(p, b) == <<WHILE_OP, 1 + Len(p) + Len(b)>> \o p \o b

If(p, b) == <<IF_OP, 1 + Len(p) + Len(b)>> \o p \o b

Else(b) == <<ELSE_OP, 1 + Len(b)>> \o b

Return(e) == <<RETURN_OP>> \o e

Store(e, t) == <<STORE_OP>> \o e \o t

Not(e, t) == <<NOT_OP>> \o e \o t

Binary(op, a, b, t) == <<op>> \o a \o b \o t

Zero == <<ZERO_OP>>

One == <<ONE_OP>>

Local0 == <<LOCAL0_OP>>

ByteConst(n) == <<BYTEPREFIX, n>>

Local1 == <<LOCAL0_OP + 1>>

Arg0 == <<ARG0_OP>>

Arg1 == <<ARG0_OP + 1>>

(* the name segments "NAM0", "FLD0", "DEV0", "MTH0", "MTH2", "MTHN", *)
(* "MTHC", "MTHP" and "_OSI"                                         *)
NAM0 == <<78, 65, 77, 48>>

FLD0 == <<70, 76, 68, 48>>

DEV0 == <<68, 69, 86, 48>>

MTH0 == <<77, 84, 72, 48>>

MTH2 == <<77, 84, 72, 50>>

MTHN == <<77, 84, 72, 78>>

MTHC == <<77, 84, 72, 67>>

MTHP == <<77, 84, 72, 80>>

OSI == <<95, 79, 83, 73>>

(* The string constant "s" in AML. *)
StringConst(s) == <<STRINGPREFIX>> \o s \o <<0>>

----------------------------------------------------------------------------
(* The namespace: the nodes, all children of the root.  A method node   *)
(* has its argument count (method_flags & METHOD_ARGC_MASK) and its     *)
(* body; a name node has its object.                                    *)
RootPath(seg) == <<92, 46>> \o seg

MainPath == RootPath(<<77, 65, 73, 78>>)

NoNode == [path |-> <<>>, type |-> "None", object |-> ZeroObject, argc |-> 0, body |-> <<>>]

NameNode(seg, obj) == [NoNode EXCEPT !.path = RootPath(seg), !.type = "Name", !.object = obj]

MethodNode(seg, argc, body) ==
    [NoNode EXCEPT !.path = RootPath(seg), !.type = "Method", !.argc = argc, !.body = body]

OtherNode(seg, type) == [NoNode EXCEPT !.path = RootPath(seg), !.type = type]

CalleeNodes ==
    {MethodNode(MTH0, 0, Store(One, Local0) \o Return(ByteConst(9))),
     MethodNode(MTH2, 2, Binary(SUBTRACT_OP, Arg0, Arg1, Local0) \o Return(Local0)),
     MethodNode(MTHN, 0, If(One, Store(<<ONES_OP>>, Local0))),
     MethodNode(MTHC, 1, Store(MTH2 \o Arg0 \o One, Local1) \o Return(Local1)),
     MethodNode(MTHP, 0, <<BREAK_OP>>)}

Namespace ==
    CalleeNodes
    \cup {MethodNode(OSI, 1, <<>>),
          [NoNode EXCEPT !.path = OsPath, !.type = "Method"],
          [NoNode EXCEPT !.path = RevPath, !.type = "Method"],
          NameNode(NAM0, IntObject(U64(5))),
          OtherNode(FLD0, "Field"),
          OtherNode(DEV0, "Device")}

(* acpins_resolve_path: the path of the name at offset k and the bytes  *)
(* the name takes: a name segment, or a root prefix and a name segment. *)
acpins_resolve_path(k, pb) ==
    LET r == IF Byte(k, pb) = 92 THEN 1 ELSE 0
    IN [bytes |-> r + 4,
        path |-> RootPath([j \in 1..4 |-> Byte(k + r + j - 1, pb)])]

(* acpi_exec_resolve: the node of the path, NoNode when there is none. *)
acpi_exec_resolve(path) ==
    IF \E n \in Namespace : acpi_strcmp(n.path, path) = 0
    THEN CHOOSE n \in Namespace : acpi_strcmp(n.path, path) = 0
    ELSE NoNode

----------------------------------------------------------------------------
(* The two stacks.  A stack is kept as the sequence of its live slots. *)
Take(seq, n, dflt) == [k \in 1..n |-> IF k <= Len(seq) THEN seq[k] ELSE dflt]

NoItem ==
    [kind |-> "None", op_opcode |-> 0, op_opstack |-> 0, op_num_operands |-> 0,
     op_want_result |-> FALSE, loop_pred |-> 0, loop_end |-> 0,
     cond_taken |-> FALSE, cond_end |-> 0]

MethodItem == [NoItem EXCEPT !.kind = "Method"]

OpItem(opcode, base, num, want) ==
    [NoItem EXCEPT !.kind = "Op", !.op_opcode = opcode, !.op_opstack = base,
                   !.op_num_operands = num, !.op_want_result = want]

LoopItem(pred, end) ==
    [NoItem EXCEPT !.kind = "Loop", !.loop_pred = pred, !.loop_end = end]

CondItem(taken, end) ==
    [NoItem EXCEPT !.kind = "Cond", !.cond_taken = taken, !.cond_end = end]

(* acpi_exec_push_opstack_or_die *)
OpstackFull == opstack_ptr = OPSTACK_SIZE

acpi_exec_push_opstack(v) == Take(opstack, opstack_ptr, ZeroObject) \o <<v>>

(* The check before a return value is pushed: operands are left. *)
OpstackNotEmpty_Unchecked == FALSE

OpstackNotEmpty == opstack_ptr # 0

(* acpi_exec_get_opstack *)
OpstackOutOfBounds(n) == n >= opstack_ptr

(* acpi_exec_pop_opstack *)
(* A pop that leaves one of the operands behind. *)
acpi_exec_pop_opstack_LeavesOne(ptr, n) == ptr - n + 1

acpi_exec_pop_opstack(ptr, n) == ptr - n

(* An overflow check that lets one item too many in. *)
StackFull_OneLate == stack_ptr + 1 = STACK_SIZE + 1

(* acpi_exec_push_stack_or_die *)
StackFull == stack_ptr + 1 = STACK_SIZE

acpi_exec_push_stack(item) == Take(stack, stack_ptr + 1, NoItem) \o <<item>>

(* acpi_exec_peek_stack *)
acpi_exec_peek_stack(n) ==
    IF stack_ptr - n < 0 \/ stack_ptr - n + 1 > Len(stack)
    THEN NoItem ELSE stack[stack_ptr - n + 1]

acpi_exec_peek_stack_back == acpi_exec_peek_stack(0)

(* A pop that removes one item too many. *)
acpi_exec_pop_stack_OneMore(ptr, n) == ptr - n - 1

(* acpi_exec_pop_stack *)
acpi_exec_pop_stack(ptr, n) == ptr - n

(* A search that takes the top item when the stack has none of the kind. *)
FindItem_NoNullCheck(kind, j) ==
    IF \E k \in 0..stack_ptr : acpi_exec_peek_stack(k).kind = kind
    THEN CHOOSE k \in 0..stack_ptr :
            /\ acpi_exec_peek_stack(k).kind = kind
            /\ \A m \in 0..(k - 1) : acpi_exec_peek_stack(m).kind # kind
    ELSE 0

(* The search loops of Return, Continue and Break: the least j such that *)
(* the item j below the top is of the kind; -1 when the stack has none.  *)
RECURSIVE FindItem(_, _)
FindItem(kind, j) ==
    IF stack_ptr - j < 0 THEN -1
    ELSE IF acpi_exec_peek_stack(j).kind = kind THEN j
    ELSE FindItem(kind, j + 1)

----------------------------------------------------------------------------
(* acpi_exec_reduce: the results an operator can give.  operands is the *)
(* operand stack from the operator's base on.                           *)
ShiftResults(a, b, shifted) ==
    IF ShiftCountDefined(b) THEN {shifted} ELSE {Zero64, a, shifted}

acpi_exec_reduce(opcode, operands) ==
    LET a == operands[1].integer
        b == operands[2].integer
    IN CASE opcode = STORE_OP -> {operands[1]}
         [] opcode = NOT_OP -> {IntObject(Not64(a))}
         [] opcode = ADD_OP -> {IntObject(Add64(a, b))}
         [] opcode = SUBTRACT_OP -> {IntObject(Sub64(a, b))}
         [] opcode = MULTIPLY_OP -> {IntObject(Mul64(a, b))}
         [] opcode = AND_OP -> {IntObject(Bitwise64("and", a, b))}
         [] opcode = OR_OP -> {IntObject(Bitwise64("or", a, b))}
         [] opcode = XOR_OP -> {IntObject(Bitwise64("xor", a, b))}
         [] opcode = SHL_OP ->
              {IntObject(r) : r \in ShiftResults(a, b, ShlN(a, b[1] % 64))}
         [] opcode = SHR_OP ->
              {IntObject(r) : r \in ShiftResults(a, b, ShrN(a, b[1] % 64))}
         [] OTHER -> {}

----------------------------------------------------------------------------
(* The cursor is at the end of the body and no While encloses it. *)
AtBodyEnd == pc = "run" /\ stack_ptr >= 0 /\ i = size /\ FindItem("Loop", 0) < 0

(* The history of the loops on the stack: the stack indices of the Loop   *)
(* scopes whose predicate was evaluated non-zero since the cursor was     *)
(* last set to it, after a step named op that leaves nsp as stack_ptr.    *)
Armed(op, nsp) ==
    {k \in (IF op = "LoopPredicate" THEN last.armed \cup {stack_ptr}
            ELSE IF op = "LoopEnd" THEN last.armed \ {stack_ptr}
            ELSE IF op \in {"Continue", "While"} THEN last.armed \ {nsp}
            ELSE last.armed) : k <= nsp}

(* One step: the new values of the state, and the record of the step: the *)
(* step's name, the cursor and the stack pointers it started from, the    *)
(* value it produced, and whether a step has started at the body's end.   *)
Go(npc, nerr, ni, nstack, nsp, nops, nosp, nlocal, narg, nret, nift, op, val) ==
    /\ pc' = npc
    /\ err' = nerr
    /\ i' = ni
    /\ stack' = nstack
    /\ stack_ptr' = nsp
    /\ opstack' = nops
    /\ opstack_ptr' = nosp
    /\ local' = nlocal
    /\ arg' = narg
    /\ retvalue' = nret
    /\ iftaken' = nift
    /\ last' = [op |-> op, at |-> i, sp |-> stack_ptr, osp |-> opstack_ptr, val |-> val,
                atend |-> last.atend \/ AtBodyEnd, armed |-> Armed(op, nsp)]
    /\ UNCHANGED <<method, handle, frames, warnings>>

(* acpi_panic: the run ends where it is. *)
Panic(msg, op) ==
    Go("panic", msg, i, stack, stack_ptr, opstack, opstack_ptr, local, arg,
       retvalue, iftaken, op, ZeroObject)

(* A step of the dispatcher that changes the cursor and the stacks only. *)
Advance(ni, nstack, nsp, nops, nosp, op, val) ==
    Go("run", err, ni, nstack, nsp, nops, nosp, local, arg, retvalue, iftaken, op, val)

(* The execution stack with its top n items removed. *)
PopStack(n) == Take(stack, acpi_exec_pop_stack(stack_ptr, n) + 1, NoItem)

(* A scope is pushed, or the push overflows. *)
PushScope(ni, it, op) ==
    IF StackFull
    THEN Go("panic", "execution engine stack overflow", ni, stack, stack_ptr + 1,
            opstack, opstack_ptr, local, arg, retvalue, iftaken, op, ZeroObject)
    ELSE Advance(ni, acpi_exec_push_stack(it), stack_ptr + 1, opstack, opstack_ptr,
                 op, ZeroObject)

----------------------------------------------------------------------------
(* acpi_exec_method on a path it answers itself: the locals are cleared, *)
(* retvalue is set and the call returns; w warnings are emitted.         *)
IsReserved(path) ==
    \/ acpi_strcmp(path, OsiPath) = 0
    \/ acpi_strcmp(path, OsPath) = 0
    \/ acpi_strcmp(path, RevPath) = 0

Reserved(v, w, op) ==
    /\ pc' = "done"
    /\ retvalue' = v
    /\ local' = [k \in 0..7 |-> ZeroObject]
    /\ warnings' = warnings + w
    /\ last' = [op |-> op, at |-> i, sp |-> stack_ptr, osp |-> opstack_ptr, val |-> v,
                atend |-> last.atend, armed |-> last.armed]
    /\ UNCHANGED <<method, i, stack, stack_ptr, opstack, opstack_ptr, arg, handle,
                   frames, err, iftaken>>

(* A memory fault of the host ends the run. *)
Fault(msg, op) ==
    Go("panic", msg, i, stack, stack_ptr, opstack, opstack_ptr,
       [k \in 0..7 |-> ZeroObject], arg, retvalue, iftaken, op, ZeroObject)

(* \._OSI.  The string of an argument that is not a String is a null *)
(* pointer: comparing it is undefined, any answer or a fault.         *)
ExecMethodOSI ==
    /\ pc = "entry"
    /\ acpi_strcmp(handle, OsiPath) = 0
    /\ IF arg[0].type = "String"
       THEN LET osi_return == OsiScan(arg[0].string, 1)
            IN Reserved(IntObject(osi_return),
                        IF IsZero64(osi_return) /\ acpi_strcmp(arg[0].string, Linux) = 0
                        THEN 1 ELSE 0,
                        "OSI")
       ELSE \/ \E r \in {Zero64, OsiSupported}, w \in {0, 1} :
                 Reserved(IntObject(r), w, "OSI")
            \/ Fault("null string in acpi_strcmp", "OSI")

(* \._OS_.  The buffer is one byte short of the copied string with its *)
(* terminator: the copy writes past it, harmlessly or not.             *)
ExecMethodOS ==
    /\ pc = "entry"
    /\ acpi_strcmp(handle, OsiPath) # 0
    /\ acpi_strcmp(handle, OsPath) = 0
    /\ \/ Reserved(StrObject(acpi_emulated_os), 0, "OS")
       \/ Fault("write past the buffer in acpi_strcpy", "OS")

(* \._REV *)
ExecMethodREV ==
    /\ pc = "entry"
    /\ acpi_strcmp(handle, OsiPath) # 0
    /\ acpi_strcmp(handle, OsPath) # 0
    /\ acpi_strcmp(handle, RevPath) = 0
    /\ Reserved(IntObject(U64(acpi_implemented_version)), 0, "REV")

----------------------------------------------------------------------------
(* acpi_exec_method up to the call of acpi_exec_run. *)
ExecMethodEnter ==
    /\ pc = "entry"
    /\ ~IsReserved(handle)
    /\ IF StackFull
       THEN Panic("execution engine stack overflow", "Enter")
       ELSE Go("run", err, 0, acpi_exec_push_stack(MethodItem), stack_ptr + 1,
               opstack, opstack_ptr, [k \in 0..7 |-> ZeroObject], arg, retvalue,
               iftaken, "Enter", ZeroObject)

(* acpi_exec_run finds the stack empty and returns 0; acpi_exec_method *)
(* moves the one operand left into retvalue.                           *)
ExecMethodFinish ==
    /\ pc = "run"
    /\ stack_ptr < 0
    /\ IF opstack_ptr # 1
       THEN Panic("expected exactly one return value after method invocation", "Finish")
       ELSE IF OpstackOutOfBounds(0)
       THEN Panic("opstack access out of bounds", "Finish")
       ELSE Go("done", err, i, stack, stack_ptr,
               Take(opstack, acpi_exec_pop_opstack(opstack_ptr, 1), ZeroObject),
               acpi_exec_pop_opstack(opstack_ptr, 1), local, arg, opstack[1],
               iftaken, "Finish", opstack[1])

----------------------------------------------------------------------------
(* The dispatcher: what the top item makes of the iteration. *)
Running == pc = "run" /\ stack_ptr >= 0

item == acpi_exec_peek_stack_back

AtImplicitReturn == item.kind = "Method" /\ i = size

(* A reduction that waits for one operand too many. *)
AtReduce_OneMore ==
    item.kind = "Op" /\ opstack_ptr = item.op_opstack + item.op_num_operands + 1

AtReduce == item.kind = "Op" /\ opstack_ptr = item.op_opstack + item.op_num_operands

AtLoopPredicate == item.kind = "Loop" /\ i = item.loop_pred

(* An end test that is off by one. *)
AtLoopEnd_PastEnd == item.kind = "Loop" /\ i # item.loop_pred /\ i = item.loop_end + 1

AtLoopEnd == item.kind = "Loop" /\ i # item.loop_pred /\ i = item.loop_end

AtLoopEscape ==
    item.kind = "Loop" /\ i # item.loop_pred /\ i # item.loop_end /\ i > item.loop_end

AtCondNotTaken == item.kind = "Cond" /\ ~item.cond_taken

AtCondEnd == item.kind = "Cond" /\ item.cond_taken /\ i = item.cond_end

FallsThrough ==
    /\ Running
    /\ ~AtImplicitReturn /\ ~AtReduce /\ ~AtLoopPredicate /\ ~AtLoopEnd
    /\ ~AtLoopEscape /\ ~AtCondNotTaken /\ ~AtCondEnd

(* A dispatcher that asks for the result of every expression. *)
want_exec_result_Always == TRUE

want_exec_result == item.kind = "Op"

(* Implicit Return(0) at the end of the body. *)
ImplicitReturn ==
    /\ Running /\ AtImplicitReturn
    /\ IF OpstackNotEmpty
       THEN Panic("opstack is not empty before return", "ImplicitReturn")
       ELSE IF OpstackFull
       THEN Panic("operand stack overflow", "ImplicitReturn")
       ELSE Advance(i, PopStack(1), acpi_exec_pop_stack(stack_ptr, 1),
                    acpi_exec_push_opstack(IntObject(Zero64)), opstack_ptr + 1,
                    "ImplicitReturn", IntObject(Zero64))

(* The operator on top has its operands: reduce, write back, pop. *)
OpstackAfterReduce(result) ==
    LET popped == acpi_exec_pop_opstack(opstack_ptr, item.op_num_operands)
    IN IF item.op_want_result
       THEN [ptr |-> popped + 1, ops |-> Take(opstack, popped, ZeroObject) \o <<result>>]
       ELSE [ptr |-> popped, ops |-> Take(opstack, popped, ZeroObject)]

Reduce(pb) ==
    /\ Running /\ AtReduce
    /\ IF OpstackOutOfBounds(item.op_opstack)
       THEN Panic("opstack access out of bounds", "Reduce")
       ELSE LET operands == [k \in 1..(opstack_ptr - item.op_opstack) |->
                                opstack[item.op_opstack + k]]
                results == acpi_exec_reduce(item.op_opcode, operands)
            IN IF results = {}
               THEN Panic("undefined opcode in acpi_exec_reduce", "Reduce")
               ELSE \E result \in results :
                      LET w == acpi_write_object(i, pb, result)
                          after == OpstackAfterReduce(result)
                      IN IF ~w.ok
                         THEN Panic("undefined target", "Reduce")
                         ELSE Go("run", err, i + w.bytes, PopStack(1),
                                 acpi_exec_pop_stack(stack_ptr, 1), after.ops,
                                 after.ptr, w.local, w.arg, retvalue, iftaken,
                                 "Reduce", result)

(* At the predicate of the loop on top. *)
LoopPredicate(pb) ==
    /\ Running /\ AtLoopPredicate
    /\ LET predicate == acpi_eval_object(i, pb)
       IN IF ~predicate.ok
          THEN Panic("undefined opcode in object", "LoopPredicate")
          ELSE IF IsZero64(predicate.value.integer)
          THEN Advance(item.loop_end, PopStack(1), acpi_exec_pop_stack(stack_ptr, 1),
                       opstack, opstack_ptr, "LoopPredicate", predicate.value)
          ELSE Advance(i + predicate.bytes, stack, stack_ptr, opstack, opstack_ptr,
                       "LoopPredicate", predicate.value)

(* At the end of the loop on top: back to its predicate. *)
LoopEnd ==
    /\ Running /\ AtLoopEnd
    /\ Advance(item.loop_pred, stack, stack_ptr, opstack, opstack_ptr,
               "LoopEnd", ZeroObject)

LoopEscape ==
    /\ Running /\ AtLoopEscape
    /\ Panic("execution escaped out of While() body", "LoopEscape")

(* The If on top was not taken: step into a following Else. *)
CondNotTaken(pb) ==
    /\ Running /\ AtCondNotTaken
    /\ Advance(IF Byte(i, pb) = ELSE_OP
               THEN i + 1 + acpi_parse_pkgsize(i + 1, pb).bytes ELSE i,
               PopStack(1), acpi_exec_pop_stack(stack_ptr, 1), opstack, opstack_ptr,
               "CondNotTaken", ZeroObject)

(* The end of the taken If on top: step over a following Else. *)
CondEnd(pb) ==
    /\ Running /\ AtCondEnd
    /\ Advance(IF i < size /\ Byte(i, pb) = ELSE_OP
               THEN i + 1 + acpi_parse_pkgsize(i + 1, pb).pkgsize ELSE i,
               PopStack(1), acpi_exec_pop_stack(stack_ptr, 1), opstack, opstack_ptr,
               "CondEnd", ZeroObject)

(* The cursor is past the body. *)
CodeEscape ==
    /\ FallsThrough
    /\ i > size
    /\ Panic("execution escaped out of code range", "CodeEscape")

----------------------------------------------------------------------------
(* Name and opcode dispatch. *)
Dispatching == FallsThrough /\ i <= size

(* A call state that starts with the caller's locals. *)
acpi_init_call_state_CallersLocals ==
    [stack |-> <<>>, stack_ptr |-> -1, opstack |-> <<>>, opstack_ptr |-> 0,
     local |-> local, arg |-> [k \in 0..6 |-> ZeroObject], retvalue |-> ZeroObject]

(* acpi_init_call_state: the zeroed call state. *)
acpi_init_call_state ==
    [stack |-> <<>>, stack_ptr |-> -1, opstack |-> <<>>, opstack_ptr |-> 0,
     local |-> [k \in 0..7 |-> ZeroObject], arg |-> [k \in 0..6 |-> ZeroObject],
     retvalue |-> ZeroObject]

(* The argument loop of acpi_methodinvoke: argument number n and those  *)
(* after it, read from offset k in the caller's state into args.        *)
RECURSIVE EvalArgs(_, _, _, _, _)
EvalArgs(k, n, argc, args, pb) ==
    IF n >= argc THEN [ok |-> TRUE, bytes |-> 0, arg |-> args]
    ELSE LET e == acpi_eval_object(k, pb)
             rest == EvalArgs(k + e.bytes, n + 1, argc, [args EXCEPT ![n] = e.value], pb)
         IN IF ~e.ok THEN [ok |-> FALSE, bytes |-> 0, arg |-> args]
            ELSE [ok |-> rest.ok, bytes |-> e.bytes + rest.bytes, arg |-> rest.arg]

(* The caller as it waits in acpi_methodinvoke for acpi_exec_method to *)
(* return: its call state, the cursor past the invocation, and whether *)
(* the result is wanted.                                               *)
CallerFrame(ni) ==
    [method |-> method, handle |-> handle, i |-> ni, at |-> i, stack |-> stack,
     stack_ptr |-> stack_ptr, opstack |-> opstack, opstack_ptr |-> opstack_ptr,
     local |-> local, arg |-> arg, retvalue |-> retvalue, iftaken |-> iftaken,
     atend |-> last.atend, armed |-> last.armed, want |-> want_exec_result]

(* acpi_methodinvoke up to the call of acpi_exec_method: the arguments  *)
(* are evaluated in the caller's state, the callee starts on a fresh    *)
(* state.                                                               *)
acpi_methodinvoke(pb, name, node) ==
    LET fresh == acpi_init_call_state
        args == EvalArgs(i + name.bytes, 0, node.argc, fresh.arg, pb)
    IN IF ~args.ok
       THEN Panic("undefined opcode in object", "Invoke")
       ELSE /\ frames' = Append(frames, CallerFrame(i + name.bytes + args.bytes))
            /\ method' = node.body
            /\ handle' = node.path
            /\ i' = 0
            /\ stack' = fresh.stack
            /\ stack_ptr' = fresh.stack_ptr
            /\ opstack' = fresh.opstack
            /\ opstack_ptr' = fresh.opstack_ptr
            /\ local' = fresh.local
            /\ arg' = args.arg
            /\ retvalue' = fresh.retvalue
            /\ pc' = "entry"
            /\ iftaken' = [k \in 0..(Len(node.body) - 1) |-> "none"]
            /\ last' = [op |-> "Invoke", at |-> i, sp |-> stack_ptr, osp |-> opstack_ptr,
                        val |-> ZeroObject, atend |-> FALSE, armed |-> {}]
            /\ UNCHANGED <<warnings, err>>

(* Process names: the value of a named object, a method invocation, or *)
(* a field read, which is done outside the engine.                     *)
ExecName(pb) ==
    /\ Dispatching
    /\ acpi_is_name(Byte(i, pb))
    /\ LET name == acpins_resolve_path(i, pb)
           node == acpi_exec_resolve(name.path)
       IN IF node.type = "None"
          THEN Panic("undefined reference", "Name")
          ELSE IF node.type = "Name"
          THEN IF want_exec_result /\ OpstackFull
               THEN Go("panic", "operand stack overflow", i + name.bytes, stack,
                       stack_ptr, opstack, opstack_ptr, local, arg, retvalue, iftaken,
                       "Name", node.object)
               ELSE IF want_exec_result
               THEN Advance(i + name.bytes, stack, stack_ptr,
                            acpi_exec_push_opstack(node.object), opstack_ptr + 1,
                            "Name", node.object)
               ELSE Advance(i + name.bytes, stack, stack_ptr, opstack, opstack_ptr,
                            "Name", node.object)
          ELSE IF node.type = "Method"
          THEN acpi_methodinvoke(pb, name, node)
          ELSE IF node.type \in {"Field", "IndexField"}
          THEN Go("delegated", err, i, stack, stack_ptr, opstack, opstack_ptr, local,
                  arg, retvalue, iftaken, "Name", ZeroObject)
          ELSE Panic("unexpected type of named object", "Name")

(* acpi_exec_method has returned to acpi_methodinvoke: the return value *)
(* is moved out, the callee's state is finalized, and the caller's tick *)
(* ends: the cursor is past the invocation and the value is pushed if   *)
(* it is wanted.                                                        *)
InvokeReturn ==
    /\ pc = "done"
    /\ frames # <<>>
    /\ LET f == frames[Len(frames)]
           method_return == retvalue
           full == f.want /\ f.opstack_ptr = OPSTACK_SIZE
       IN /\ frames' = SubSeq(frames, 1, Len(frames) - 1)
          /\ method' = f.method
          /\ handle' = f.handle
          /\ i' = f.i
          /\ stack' = f.stack
          /\ stack_ptr' = f.stack_ptr
          /\ opstack' = IF f.want /\ ~full
                        THEN Take(f.opstack, f.opstack_ptr, ZeroObject) \o <<method_return>>
                        ELSE f.opstack
          /\ opstack_ptr' = IF f.want /\ ~full THEN f.opstack_ptr + 1 ELSE f.opstack_ptr
          /\ local' = f.local
          /\ arg' = f.arg
          /\ retvalue' = f.retvalue
          /\ pc' = IF full THEN "panic" ELSE "run"
          /\ err' = IF full THEN "operand stack overflow" ELSE err
          /\ iftaken' = f.iftaken
          /\ last' = [op |-> "InvokeReturn", at |-> f.at, sp |-> f.stack_ptr,
                      osp |-> f.opstack_ptr, val |-> method_return, atend |-> f.atend,
                      armed |-> f.armed]
          /\ UNCHANGED warnings

AtExtOpBoundary(pb) == Byte(i, pb) = EXTOP_PREFIX /\ i + 1 = size

ExtOpBoundary(pb) ==
    /\ Dispatching
    /\ ~acpi_is_name(Byte(i, pb))
    /\ AtExtOpBoundary(pb)
    /\ Panic("two-byte opcode on method boundary", "ExtOp")

Opcode(pb) ==
    IF Byte(i, pb) = EXTOP_PREFIX
    THEN EXTOP_PREFIX * 256 + Byte(i + 1, pb) ELSE Byte(i, pb)

At(ops, pb) ==
    /\ Dispatching
    /\ ~acpi_is_name(Byte(i, pb))
    /\ ~AtExtOpBoundary(pb)
    /\ Opcode(pb) \in ops

(* A value-producing item of n bytes: pushed if wanted, the cursor moves. *)
Produce(op, v, n) ==
    IF want_exec_result
    THEN IF OpstackFull
         THEN Panic("operand stack overflow", op)
         ELSE Advance(i + n, stack, stack_ptr, acpi_exec_push_opstack(v),
                      opstack_ptr + 1, op, v)
    ELSE Advance(i + n, stack, stack_ptr, opstack, opstack_ptr, op, v)

(* case NOP_OP: i++, then falls through into case ZERO_OP. *)
NopBytes == 2

ExecNop(pb) == At({NOP_OP}, pb) /\ Produce("Nop", IntObject(Zero64), NopBytes)

ExecZero(pb) == At({ZERO_OP}, pb) /\ Produce("Zero", IntObject(Zero64), 1)

ExecOne(pb) == At({ONE_OP}, pb) /\ Produce("One", IntObject(U64(1)), 1)

ExecOnes(pb) == At({ONES_OP}, pb) /\ Produce("Ones", IntObject(Ones64), 1)

ExecInteger(pb) ==
    /\ At({BYTEPREFIX, WORDPREFIX, DWORDPREFIX, QWORDPREFIX}, pb)
    /\ Produce("Integer", IntObject(acpi_eval_integer(i, pb).integer),
               acpi_eval_integer(i, pb).bytes)

ExecPackage(pb) ==
    /\ At({PACKAGE_OP}, pb)
    /\ Produce("Package", PkgObject, acpi_parse_pkgsize(i + 1, pb).pkgsize + 1)

(* acpi_exec_sleep *)
acpi_exec_sleep(pb) ==
    LET time == acpi_eval_object(i + 2, pb)
    IN [ok |-> time.ok, bytes |-> 2 + time.bytes]

ExecSleep(pb) ==
    /\ At({EXTOP_PREFIX * 256 + SLEEP_OP}, pb)
    /\ IF ~acpi_exec_sleep(pb).ok
       THEN Panic("undefined opcode in object", "Sleep")
       ELSE Advance(i + acpi_exec_sleep(pb).bytes, stack, stack_ptr, opstack,
                    opstack_ptr, "Sleep", ZeroObject)

(* A Return that leaves the method context on the stack. *)
ReturnPop_KeepsMethod(j) == j

(* Return: the items popped, counted from the top. *)
ReturnPop(j) == j + 1

ExecReturn(pb) ==
    /\ At({RETURN_OP}, pb)
    /\ LET result == acpi_eval_object(i + 1, pb)
           j == FindItem("Method", 0)
       IN IF ~result.ok
          THEN Panic("undefined opcode in object", "Return")
          ELSE IF j < 0
          THEN Go("panic", "Return() outside of control method()", i + 1 + result.bytes,
                  stack, stack_ptr, opstack, opstack_ptr, local, arg, retvalue,
                  iftaken, "Return", result.value)
          ELSE IF OpstackNotEmpty
          THEN Panic("opstack is not empty before return", "Return")
          ELSE IF OpstackFull
          THEN Panic("operand stack overflow", "Return")
          ELSE Advance(i + 1 + result.bytes, PopStack(ReturnPop(j)),
                       acpi_exec_pop_stack(stack_ptr, ReturnPop(j)),
                       acpi_exec_push_opstack(result.value), opstack_ptr + 1,
                       "Return", result.value)

ExecWhile(pb) ==
    /\ At({WHILE_OP}, pb)
    /\ LET j == i + 1
           pkg == acpi_parse_pkgsize(j, pb)
       IN PushScope(j + pkg.bytes, LoopItem(j + pkg.bytes, j + pkg.pkgsize), "While")

(* A Continue that removes the loop as Break does. *)
ContinuePop_PopsLoop(j) == j + 1

(* Continue: the items popped, the loop found j below the top. *)
ContinuePop(j) == j

ExecContinue(pb) ==
    /\ At({CONTINUE_OP}, pb)
    /\ LET j == FindItem("Loop", 0)
       IN IF j < 0
          THEN Panic("Continue() outside of While()", "Continue")
          ELSE Advance(acpi_exec_peek_stack(j).loop_pred, PopStack(ContinuePop(j)),
                       acpi_exec_pop_stack(stack_ptr, ContinuePop(j)),
                       opstack, opstack_ptr, "Continue", ZeroObject)

(* A Break that leaves the loop on the stack. *)
BreakPop_KeepsLoop(j) == j

(* Break: the items popped, the loop found j below the top. *)
BreakPop(j) == j + 1

ExecBreak(pb) ==
    /\ At({BREAK_OP}, pb)
    /\ LET j == FindItem("Loop", 0)
       IN IF j < 0
          THEN Panic("Break() outside of While()", "Break")
          ELSE Advance(acpi_exec_peek_stack(j).loop_end, PopStack(BreakPop(j)),
                       acpi_exec_pop_stack(stack_ptr, BreakPop(j)),
                       opstack, opstack_ptr, "Break", ZeroObject)

ExecIf(pb) ==
    /\ At({IF_OP}, pb)
    /\ LET j == i + 1
           pkg == acpi_parse_pkgsize(j, pb)
           predicate == acpi_eval_object(j + pkg.bytes, pb)
           taken == ~IsZero64(predicate.value.integer)
           cond_end == j + pkg.pkgsize
           ni == IF taken THEN j + pkg.bytes + predicate.bytes ELSE cond_end
       IN IF ~predicate.ok
          THEN Panic("undefined opcode in object", "If")
          ELSE IF StackFull
          THEN Go("panic", "execution engine stack overflow", ni, stack, stack_ptr + 1,
                  opstack, opstack_ptr, local, arg, retvalue, iftaken, "If",
                  predicate.value)
          ELSE Go("run", err, ni, acpi_exec_push_stack(CondItem(taken, cond_end)),
                  stack_ptr + 1, opstack, opstack_ptr, local, arg, retvalue,
                  [iftaken EXCEPT ![i] = IF taken THEN "yes" ELSE "no"],
                  "If", predicate.value)

ExecElse(pb) == At({ELSE_OP}, pb) /\ Panic("Else() outside of If()", "Else")

ExecArg(pb) ==
    /\ At({ARG0_OP + k : k \in 0..6}, pb)
    /\ Produce("Arg", arg[Opcode(pb) - ARG0_OP], 1)

ExecLocal(pb) ==
    /\ At({LOCAL0_OP + k : k \in 0..7}, pb)
    /\ Produce("Local", local[Opcode(pb) - LOCAL0_OP], 1)

UnaryOps == {STORE_OP, NOT_OP}

BinaryOps == {ADD_OP, SUBTRACT_OP, MULTIPLY_OP, AND_OP, OR_OP, XOR_OP, SHR_OP, SHL_OP}

ExecUnaryOp(pb) ==
    /\ At(UnaryOps, pb)
    /\ PushScope(i + 1, OpItem(Byte(i, pb), opstack_ptr, 1, want_exec_result), "UnaryOp")

ExecBinaryOp(pb) ==
    /\ At(BinaryOps, pb)
    /\ PushScope(i + 1, OpItem(Byte(i, pb), opstack_ptr, 2, want_exec_result), "BinaryOp")

(* Opcodes handed to helpers that are not part of the engine: the run *)
(* leaves the model.                                                  *)
DelegatedOps ==
    {NAME_OP, BYTEFIELD_OP, WORDFIELD_OP, DWORDFIELD_OP, INCREMENT_OP,
     DECREMENT_OP, DIVIDE_OP}

ExecDelegated(pb) ==
    /\ At(DelegatedOps, pb)
    /\ Go("delegated", err, i, stack, stack_ptr, opstack, opstack_ptr, local, arg,
          retvalue, iftaken, "Delegated", ZeroObject)

NativeOps ==
    {NOP_OP, ZERO_OP, ONE_OP, ONES_OP, BYTEPREFIX, WORDPREFIX, DWORDPREFIX,
     QWORDPREFIX, PACKAGE_OP, EXTOP_PREFIX * 256 + SLEEP_OP, RETURN_OP, WHILE_OP,
     CONTINUE_OP, BREAK_OP, IF_OP, ELSE_OP}
    \cup {ARG0_OP + k : k \in 0..6} \cup {LOCAL0_OP + k : k \in 0..7}
    \cup UnaryOps \cup BinaryOps \cup DelegatedOps

(* default: the expression is evaluated by acpi_eval_object. *)
ExecDefault(pb) ==
    /\ Dispatching
    /\ ~acpi_is_name(Byte(i, pb))
    /\ ~AtExtOpBoundary(pb)
    /\ Opcode(pb) \notin NativeOps
    /\ LET r == acpi_eval_object(i, pb)
       IN IF want_exec_result /\ OpstackFull
          THEN Panic("operand stack overflow", "Default")
          ELSE IF ~r.ok
          THEN Panic("undefined opcode in object", "Default")
          ELSE Produce("Default", r.value, r.bytes)

----------------------------------------------------------------------------
(* The legal method bodies of at most MaxLen bytes built from Noop,        *)
(* Return(One), Store and Add/Not expressions over One, While, If and      *)
(* If/Else with the predicates Zero and One, and Break/Continue in loops.  *)
MaxLen == 8

Predicates == {Zero, One}

RECURSIVE Operands(_)
Operands(n) ==
    (IF n = 1 THEN {One} ELSE {})
    \cup (IF n >= 3 THEN {Not(e, Zero) : e \in Operands(n - 2)} ELSE {})
    \cup UNION {{Binary(ADD_OP, a, b, Zero) : a \in Operands(k), b \in Operands(n - 2 - k)} :
                k \in 1..(n - 3)}

RECURSIVE Statements(_, _), Bodies(_, _)
Statements(n, inLoop) ==
    (IF n = 1 THEN {<<NOP_OP>>} ELSE {})
    \cup (IF n = 1 /\ inLoop THEN {<<BREAK_OP>>, <<CONTINUE_OP>>} ELSE {})
    \cup (IF n = 2 THEN {Return(One)} ELSE {})
    \cup (IF n >= 3 THEN {Store(e, Local0) : e \in Operands(n - 2)} ELSE {})
    \cup (IF n >= 3 THEN Operands(n) ELSE {})
    \cup (IF n >= 3
          THEN {While(p, b) : p \in Predicates, b \in Bodies(n - 3, TRUE)}
               \cup {If(p, b) : p \in Predicates, b \in Bodies(n - 3, inLoop)}
          ELSE {})
    \cup UNION {{If(p, b) \o Else(c) :
                    p \in Predicates, b \in Bodies(k, inLoop),
                    c \in Bodies(n - 5 - k, inLoop)} : k \in 0..(n - 5)}

Bodies(n, inLoop) ==
    IF n = 0 THEN {<<>>}
    ELSE UNION {{s \o b : s \in Statements(k, inLoop), b \in Bodies(n - k, inLoop)} :
                k \in 1..n}

GrammarBodies == UNION {Bodies(n, FALSE) : n \in 0..MaxLen}

(* n operators Not nested in one another (null targets), n Whiles nested *)
(* in one another around a body.                                         *)
RECURSIVE NestedNot(_)
NestedNot(n) == IF n = 0 THEN One ELSE Not(NestedNot(n - 1), Zero)

RECURSIVE NestedWhile(_, _)
NestedWhile(n, b) == IF n = 0 THEN b ELSE While(One, NestedWhile(n - 1, b))

(* Further legal bodies: the scenarios of the specification, nested Ifs *)
(* before an Else, loops over a local, the other value-producing items. *)
ExtraBodies ==
    {Return(ByteConst(42)),
     If(Zero, Return(One)) \o Else(Return(ByteConst(2))),
     If(One, Return(One)) \o Else(Return(ByteConst(2))),
     If(One, If(Zero, <<>>)) \o Else(Store(One, Local0)) \o Return(Local0),
     If(One, If(One, <<>>)) \o Else(Store(One, Local0)) \o Return(Local0),
     If(One, If(One, <<>>)) \o Else(Store(One, Local0)),
     If(Zero, If(One, <<>>)) \o Else(Store(One, Local0)) \o Return(Local0),
     If(Zero, <<>>),
     Store(One, Local0) \o While(Local0, Store(Zero, Local0)) \o Return(Local0),
     Store(One, Local0) \o While(Local0, Store(Zero, Local0) \o If(One, <<CONTINUE_OP>>)),
     While(One, If(One, <<BREAK_OP>>)) \o Return(ByteConst(3)),
     While(One, While(One, <<BREAK_OP>>) \o <<BREAK_OP>>),
     While(One, If(One, While(One, Return(ByteConst(7))))),
     If(One, While(One, If(One, Return(Local0)))),
     Store(Binary(ADD_OP, ByteConst(5), ByteConst(7), Zero), Local0) \o Return(Local0),
     Binary(ADD_OP, One, Binary(ADD_OP, One, Binary(ADD_OP, One, One, Zero), Zero), Local0),
     Binary(SUBTRACT_OP, Zero, One, Local0) \o Return(Local0),
     Binary(SHL_OP, One, ByteConst(9), Local0) \o Return(Local0),
     Binary(SHR_OP, <<ONES_OP>>, ByteConst(64), Local0) \o Return(Local0),
     Binary(MULTIPLY_OP, <<WORDPREFIX, 1, 1>>, <<ARG0_OP>>, <<ARG0_OP>>),
     Binary(XOR_OP, <<ONES_OP>>, Local0, Zero),
     Store(<<STRINGPREFIX, 65, 0>>, Local0) \o Return(Local0),
     Store(<<PACKAGE_OP, 2, 0>>, Local0),
     <<ZERO_OP, ONE_OP, ONES_OP, LOCAL0_OP, ARG0_OP>> \o ByteConst(5)
        \o <<PACKAGE_OP, 2, 0>> \o <<STRINGPREFIX, 65, 0>>,
     <<EXTOP_PREFIX, SLEEP_OP, ONE_OP>>,
     Store(NestedNot(14), Local0),
     NestedWhile(15, <<BREAK_OP>>),
     While(One, While(One, If(One, If(One, <<CONTINUE_OP>>)))),
     While(One, While(One, If(One, If(One, <<BREAK_OP>>))) \o <<BREAK_OP>>),
     Store(One, Local0)
        \o While(Local0, Store(Zero, Local0) \o If(One, If(Zero, <<>>)) \o Else(<<>>))
        \o Return(One),
     Store(ByteConst(2), Local0)
        \o While(Local0, Binary(SUBTRACT_OP, Local0, One, Local0)
                         \o If(Local0, <<CONTINUE_OP>>) \o Store(One, Local1))
        \o Return(Local1)}

(* Legal bodies that use the namespace: named values, and invocations of *)
(* methods as statements, as operands and in loops.                      *)
NameBodies ==
    {NAM0,
     While(One, One \o ByteConst(5) \o NAM0 \o <<BREAK_OP>>),
     If(One, <<ONES_OP, LOCAL0_OP, ARG0_OP>> \o <<PACKAGE_OP, 2, 0>> \o NAM0
             \o StringConst(Linux)),
     <<92>> \o NAM0 \o Return(Local0),
     Store(NAM0, Local0) \o Return(Local0),
     Binary(ADD_OP, NAM0, NAM0, Local0) \o Return(Local0),
     MTH0 \o Return(Local0),
     Store(<<ONES_OP>>, Local0) \o Store(MTH0, Local1) \o Return(Local0),
     Store(MTH0, Local0) \o Return(Local0),
     Store(MTH2 \o ByteConst(7) \o ByteConst(5), Local0) \o Return(Local0),
     Store(ByteConst(3), Local1) \o MTH2 \o Local1 \o ByteConst(5),
     Binary(ADD_OP, MTH2 \o ByteConst(7) \o ByteConst(5), MTH0, Local0) \o Return(Local0),
     Store(MTHC \o ByteConst(9), Local0) \o Return(Local0),
     MTHN \o MTHN,
     Store(MTHN, Local0) \o Return(Local0),
     While(One, MTH0 \o <<BREAK_OP>>),
     If(One, Store(MTH0, Local0)) \o Else(<<>>) \o Return(Local0),
     Store(OSI \o StringConst(Windows20(<<48, 57>>)), Local0) \o Return(Local0),
     OSI \o StringConst(Linux) \o Store(OSI \o StringConst(Windows20(<<49, 53>>)), Local0),
     OSI \o StringConst(Linux) \o OSI \o StringConst(Linux),
     Store(OSI \o StringConst(<<80, 108, 97, 110, 32, 57>>), Local0) \o Return(Local0),
     Store(<<95, 82, 69, 86>>, Local0) \o Return(Local0),
     <<95, 79, 83, 95>>}

(* One operator on two quadword constants, and Not on one, stored to *)
(* Local0: the operands are zero, small, large, powers of two, shift *)
(* counts up to and past 63, and two values with all bytes distinct. *)
QWordConst(v) == <<QWORDPREFIX>> \o v

ArithmeticOperands ==
    {<<0, 0, 0, 0, 0, 0, 0, 0>>,
     <<1, 0, 0, 0, 0, 0, 0, 0>>,
     <<3, 0, 0, 0, 0, 0, 0, 0>>,
     <<63, 0, 0, 0, 0, 0, 0, 0>>,
     <<64, 0, 0, 0, 0, 0, 0, 0>>,
     <<255, 255, 255, 255, 0, 0, 0, 0>>,
     <<0, 0, 0, 0, 1, 0, 0, 0>>,
     <<0, 0, 0, 0, 0, 0, 0, 128>>,
     <<255, 255, 255, 255, 255, 255, 255, 255>>,
     <<239, 205, 171, 137, 103, 69, 35, 1>>,
     <<16, 50, 84, 118, 152, 186, 220, 254>>}

ArithmeticBodies ==
    {Binary(op, QWordConst(a), QWordConst(b), Local0) :
        op \in BinaryOps, a \in ArithmeticOperands, b \in ArithmeticOperands}
    \cup {Not(QWordConst(a), Local0) : a \in ArithmeticOperands}

CalleeBodies == {n.body : n \in CalleeNodes} \ {<<BREAK_OP>>}

LegalBodies ==
    GrammarBodies \cup ExtraBodies \cup NameBodies \cup CalleeBodies
    \cup ArithmeticBodies

(* Bodies that are not legal AML. *)
MalformedBodies ==
    {While(One, <<ADD_OP, ONE_OP, CONTINUE_OP>>),
     While(One, <<ADD_OP, ONE_OP, BREAK_OP>>),
     <<BREAK_OP>>,
     <<CONTINUE_OP>>,
     If(One, <<CONTINUE_OP>>),
     If(One, <<BREAK_OP>>),
     If(One, Binary(ADD_OP, One, <<BREAK_OP>>, Zero)),
     Else(<<>>),
     <<EXTOP_PREFIX>>,
     <<65, 66, 67, 95>>,
     <<INCREMENT_OP, LOCAL0_OP>>,
     <<2>>,
     <<ADD_OP, ONE_OP>>,
     <<RETURN_OP>>,
     <<ADD_OP, ONE_OP, RETURN_OP, ONE_OP>>,
     <<STORE_OP, ONE_OP, 2>>,
     <<WHILE_OP, 1, ONE_OP, NOP_OP>>,
     <<WHILE_OP, 2, 2>>,
     <<EXTOP_PREFIX, SLEEP_OP, 2>>,
     NestedNot(16),
     NestedWhile(16, <<>>),
     MTHP,
     Store(MTHP, Local0),
     DEV0,
     FLD0,
     MTH2 \o One \o <<2>>,
     OSI \o One}

Methods == LegalBodies \cup MalformedBodies

----------------------------------------------------------------------------
(* The strings \._OSI is asked about: those of the table, "Linux", and  *)
(* strings that differ from them in case, in length or in one character; *)
(* and two arguments that are no strings.                                *)
OsiArguments ==
    {StrObject(supported_osi_strings[k]) : k \in 1..Len(supported_osi_strings)}
    \cup {StrObject(Linux),
          StrObject(<<80, 108, 97, 110, 32, 57>>),                 \* "Plan 9"
          StrObject(<<108, 105, 110, 117, 120>>),                  \* "linux"
          StrObject(<<76, 73, 78, 85, 88>>),                       \* "LINUX"
          StrObject(<<76, 105, 110, 117>>),                        \* "Linu"
          StrObject(Linux \o <<32>>),                              \* "Linux "
          StrObject(<<>>),                                         \* ""
          StrObject(<<119, 105, 110, 100, 111, 119, 115, 32, 50, 48, 48, 57>>),
                                                                   \* "windows 2009"
          StrObject(<<87, 73, 78, 68, 79, 87, 83, 32, 50, 48, 48, 57>>),
                                                                   \* "WINDOWS 2009"
          StrObject(Windows20(<<48>>)),                            \* "Windows 200"
          StrObject(Windows20(<<48, 57, 32>>)),                    \* "Windows 2009 "
          StrObject(Windows20(<<48, 49, 32, 83, 80, 50>>)),        \* "Windows 2001 SP2"
          StrObject(Windows20(<<49, 52>>)),                        \* "Windows 2014"
          StrObject(Windows20(<<>>)),                              \* "Windows 20"
          ZeroObject,
          IntObject(U64(1))}

(* The state on entry of acpi_exec_method, after acpi_init_call_state: a  *)
(* method without arguments, or one of the paths acpi_exec_method answers *)
(* itself.                                                                *)
Init ==
    /\ \/ method \in Methods /\ handle = MainPath /\ arg = [k \in 0..6 |-> ZeroObject]
       \/ /\ method = <<>>
          /\ \/ handle = OsiPath /\ arg \in {[[k \in 0..6 |-> ZeroObject] EXCEPT ![0] = a] :
                                                a \in OsiArguments}
             \/ handle \in {OsPath, RevPath} /\ arg = [k \in 0..6 |-> ZeroObject]
    /\ frames = <<>>
    /\ warnings = 0
    /\ i = 0
    /\ stack = <<>>
    /\ stack_ptr = -1
    /\ opstack = <<>>
    /\ opstack_ptr = 0
    /\ local = [k \in 0..7 |-> ZeroObject]
    /\ retvalue = ZeroObject
    /\ pc = "entry"
    /\ err = ""
    /\ iftaken = [k \in 0..(Len(method) - 1) |-> "none"]
    /\ last = [op |-> "Init", at |-> 0, sp |-> -1, osp |-> 0, val |-> ZeroObject,
               atend |-> FALSE, armed |-> {}]

Next ==
    \/ ExecMethodEnter
    \/ ExecMethodOSI
    \/ ExecMethodOS
    \/ ExecMethodREV
    \/ ExecMethodFinish
    \/ InvokeReturn
    \/ ImplicitReturn
    \/ LoopEnd
    \/ LoopEscape
    \/ CodeEscape
    \/ \E pb \in PastBytes :
         \/ Reduce(pb)
         \/ LoopPredicate(pb)
         \/ CondNotTaken(pb)
         \/ CondEnd(pb)
         \/ ExecName(pb)
         \/ ExtOpBoundary(pb)
         \/ ExecNop(pb)
         \/ ExecZero(pb)
         \/ ExecOne(pb)
         \/ ExecOnes(pb)
         \/ ExecInteger(pb)
         \/ ExecPackage(pb)
         \/ ExecSleep(pb)
         \/ ExecReturn(pb)
         \/ ExecWhile(pb)
         \/ ExecContinue(pb)
         \/ ExecBreak(pb)
         \/ ExecIf(pb)
         \/ ExecElse(pb)
         \/ ExecArg(pb)
         \/ ExecLocal(pb)
         \/ ExecUnaryOp(pb)
         \/ ExecBinaryOp(pb)
         \/ ExecDelegated(pb)
         \/ ExecDefault(pb)

Spec == Init /\ [][Next]_vars

----------------------------------------------------------------------------
(* A helper outside the engine returns: acpi_read_opregion gives the  *)
(* field's value, which is pushed if it is wanted, and the cursor moves *)
(* past the name; the other helpers return the bytes they consumed, at  *)
(* least one.                                                           *)
DelegatedReturn ==
    /\ pc = "delegated"
    /\ IF last.op = "Name"
       THEN \E v \in {IntObject(Zero64), IntObject(U64(1))} :
              Produce("Field", v, acpins_resolve_path(i, ZERO_OP).bytes)
       ELSE \E n \in 1..2 :
              Advance(i + n, stack, stack_ptr, opstack, opstack_ptr, "Helper", ZeroObject)

(* The runs of the bodies that hold no While byte and no name of a       *)
(* method, with the opcodes handled outside the engine returning to the  *)
(* dispatcher loop.  A While is met only outside the buffer; no run of   *)
(* these bodies has the cursor past the end of a loop on top, so the     *)
(* step LoopEscape is left out.                                          *)
TerminationInit ==
    /\ Init
    /\ handle = MainPath
    /\ \A k \in 0..(size - 1) :
          /\ Byte(k, ZERO_OP) # WHILE_OP
          /\ acpi_is_name(Byte(k, ZERO_OP)) =>
                acpi_exec_resolve(acpins_resolve_path(k, ZERO_OP).path).type # "Method"

TerminationNext ==
    \/ ExecMethodEnter
    \/ ExecMethodFinish
    \/ ImplicitReturn
    \/ CodeEscape
    \/ DelegatedReturn
    \/ LoopEnd
    \/ \E pb \in PastBytes :
         \/ Reduce(pb)
         \/ LoopPredicate(pb)
         \/ CondNotTaken(pb)
         \/ CondEnd(pb)
         \/ ExecName(pb)
         \/ ExtOpBoundary(pb)
         \/ ExecNop(pb)
         \/ ExecZero(pb)
         \/ ExecOne(pb)
         \/ ExecOnes(pb)
         \/ ExecInteger(pb)
         \/ ExecPackage(pb)
         \/ ExecSleep(pb)
         \/ ExecReturn(pb)
         \/ ExecWhile(pb)
         \/ ExecContinue(pb)
         \/ ExecBreak(pb)
         \/ ExecIf(pb)
         \/ ExecElse(pb)
         \/ ExecArg(pb)
         \/ ExecLocal(pb)
         \/ ExecUnaryOp(pb)
         \/ ExecBinaryOp(pb)
         \/ ExecDelegated(pb)
         \/ ExecDefault(pb)

(* The dispatcher loop runs as long as it can. *)
TerminationSpec == TerminationInit /\ [][TerminationNext]_vars /\ WF_vars(TerminationNext)

----------------------------------------------------------------------------
(* Properties. *)
Legal == method \in LegalBodies

AtTick == pc = "run" /\ stack_ptr >= 0

(* The Ifs of the body that an Else follows, with the byte ranges of the *)
(* two bodies.  An Else after two Ifs that end at the same offset        *)
(* follows the outer one, whose body the inner one closes.               *)
IfEnd(k) == k + 1 + acpi_parse_pkgsize(k + 1, 0).pkgsize

IfBodyStart(k) ==
    k + 1 + acpi_parse_pkgsize(k + 1, 0).bytes
    + acpi_eval_integer(k + 1 + acpi_parse_pkgsize(k + 1, 0).bytes, 0).bytes

ElseBodyStart(k) == IfEnd(k) + 1 + acpi_parse_pkgsize(IfEnd(k) + 1, 0).bytes

ElseBodyEnd(k) == IfEnd(k) + 1 + acpi_parse_pkgsize(IfEnd(k) + 1, 0).pkgsize

IfElses ==
    {k \in 0..(size - 1) :
        /\ Byte(k, 0) = IF_OP /\ IfEnd(k) < size /\ Byte(IfEnd(k), 0) = ELSE_OP
        /\ \A m \in 0..(k - 1) : ~(Byte(m, 0) = IF_OP /\ IfEnd(m) = IfEnd(k))}

(* C1: for every If followed by an Else, the dispatcher is inside the If *)
(* body only if that If's own predicate was non-zero, inside the Else    *)
(* body only if it was zero, and it enters the body the predicate        *)
(* selects.                                                              *)
C1_IfElseExclusive ==
    Legal /\ AtTick =>
        \A k \in IfElses :
            /\ i >= IfBodyStart(k) /\ i < IfEnd(k) => iftaken[k] = "yes"
            /\ i >= ElseBodyStart(k) /\ i < ElseBodyEnd(k) => iftaken[k] = "no"

(* C2: once a tick has started at the end of a legal body with no While *)
(* around it and no Return executed, the run does not fail and ends     *)
(* with retvalue Integer(0).                                            *)
C2_ImplicitReturnZero ==
    Legal /\ last.atend =>
        /\ pc # "panic"
        /\ pc = "done" => retvalue = IntObject(Zero64)

OpItems == {k \in 1..(stack_ptr + 1) : stack[k].kind = "Op"}

(* C4 as stated: every Op scope on the stack has                      *)
(* opstack_base <= opstack_ptr <= opstack_base + num_operands.        *)
C4_EveryOpBounded ==
    Legal /\ AtTick =>
        \A k \in OpItems :
            /\ stack[k].op_opstack <= opstack_ptr
            /\ opstack_ptr <= stack[k].op_opstack + stack[k].op_num_operands

(* C4 amended: every Op scope on the stack has opstack_base <=         *)
(* opstack_ptr, and the Op scope on top of the stack also has          *)
(* opstack_ptr <= opstack_base + num_operands.                         *)
C4_TopOpBounded ==
    AtTick =>
        /\ \A k \in OpItems : stack[k].op_opstack <= opstack_ptr
        /\ item.kind = "Op" => opstack_ptr <= item.op_opstack + item.op_num_operands

C4_Witness ==
    /\ AtTick /\ Legal /\ item.kind = "Op"
    /\ \E k \in OpItems :
          opstack_ptr > stack[k].op_opstack + stack[k].op_num_operands

(* C5 as stated: after a Continue and after a Break the top of the *)
(* execution stack is a Loop scope.                                *)
C5_LoopOnTop ==
    pc = "run" /\ last.op \in {"Continue", "Break"} => item.kind = "Loop"

(* C5 amended: a Continue leaves the nearest Loop scope on top, with the *)
(* cursor at its predicate; a Break pops the nearest Loop scope and all  *)
(* above it, so the top is the scope that was directly below that Loop,  *)
(* with the cursor at the loop's end.                                    *)
C5_ContinueKeepsBreakPops ==
    [][LET j == FindItem("Loop", 0) IN
       /\ pc' = "run" /\ last'.op = "Continue" =>
            /\ acpi_exec_peek_stack(j).kind = "Loop"
            /\ stack_ptr' = stack_ptr - j
            /\ stack' = SubSeq(stack, 1, stack_ptr - j + 1)
            /\ i' = acpi_exec_peek_stack(j).loop_pred
       /\ pc' = "run" /\ last'.op = "Break" =>
            /\ acpi_exec_peek_stack(j).kind = "Loop"
            /\ stack_ptr' = stack_ptr - j - 1
            /\ stack_ptr' >= 0
            /\ stack' = SubSeq(stack, 1, stack_ptr - j)
            /\ i' = acpi_exec_peek_stack(j).loop_end]_vars

C5_Witness ==
    /\ pc = "run" /\ last.op = "Break" /\ last.sp = 2 /\ stack_ptr = 0
    /\ item.kind = "Method"

(* C6: when no MethodContext is left on the stack the operand stack    *)
(* holds exactly one value, the 'expected exactly one return value'    *)
(* error is never raised, and when method entry has returned that      *)
(* value is in retvalue with both stacks empty.                        *)
C6_OneReturnValue ==
    /\ pc = "run" /\ FindItem("Method", 0) < 0 =>
          /\ opstack_ptr = 1
          /\ last.op \in {"ImplicitReturn", "Return"}
          /\ opstack = <<last.val>>
    /\ err # "expected exactly one return value after method invocation"
    /\ pc = "done" => retvalue = last.val /\ opstack_ptr = 0 /\ stack_ptr = -1

C6_Witness ==
    pc = "done" /\ retvalue = IntObject(U64(42)) /\ opstack_ptr = 0 /\ stack_ptr = -1

(* C7: at every tick boundary 0 <= opstack_ptr <= 16 and            *)
(* -1 <= stack_ptr <= 15.                                           *)
C7_PointersInRange ==
    pc = "run" =>
        /\ 0 <= opstack_ptr /\ opstack_ptr <= OPSTACK_SIZE
        /\ -1 <= stack_ptr /\ stack_ptr <= STACK_SIZE - 1

C7_Witness ==
    pc = "run" /\ last.op = "Break" /\ last.sp = STACK_SIZE - 1 /\ stack_ptr = 14

(* C8: for a legal body the cursor is within [0, size] at every tick *)
(* boundary.                                                         *)
C8_CursorInRange == Legal /\ pc = "run" => 0 <= i /\ i <= size

(* C9: no method body, legal or not, makes the dispatcher raise    *)
(* 'operand stack overflow' or 'opstack access out of bounds'.     *)
C9_NoOpstackError ==
    err \notin {"operand stack overflow", "opstack access out of bounds"}

NoneOnStack(kind) == \A k \in 1..(stack_ptr + 1) : stack[k].kind # kind

(* C10: a Continue or Break with no Loop scope on the stack, and a      *)
(* Return with no MethodContext on the stack, ends the run in a fatal   *)
(* error with the cursor and both stacks as they were; after a fatal    *)
(* error nothing is dispatched.                                         *)
C10_UnmatchedIsFatal ==
    [][/\ (/\ \E pb \in PastBytes : At({CONTINUE_OP, BREAK_OP}, pb)
           /\ NoneOnStack("Loop"))
          => /\ pc' = "panic"
             /\ err' \in {"Continue() outside of While()", "Break() outside of While()"}
             /\ UNCHANGED <<i, stack, stack_ptr, opstack, opstack_ptr>>
       /\ (/\ \E pb \in PastBytes : At({RETURN_OP}, pb)
           /\ NoneOnStack("Method"))
          => /\ pc' = "panic"
             /\ UNCHANGED <<stack, stack_ptr, opstack, opstack_ptr>>
       /\ pc # "panic"]_vars

C10_Witness ==
    /\ pc = "panic" /\ err = "Break() outside of While()"
    /\ last.op = "Break" /\ last.sp = 1 /\ stack_ptr = 1 /\ i = last.at

(* The twelve strings \._OSI supports. *)
SupportedStrings == {supported_osi_strings[k] : k \in 1..12}

(* C11: method entry on \._OSI with a String in arg[0] returns at once  *)
(* with retvalue Integer(0xFFFFFFFF) if the string is one of the twelve *)
(* supported strings and Integer(0) otherwise, emits one warning if the *)
(* string is "Linux" and none otherwise, executes no AML and leaves     *)
(* both stacks empty.                                                   *)
C11_OsiAnswer ==
    [][pc = "entry" /\ handle = OsiPath /\ arg[0].type = "String" =>
         /\ pc' = "done"
         /\ retvalue' = IF arg[0].string \in SupportedStrings
                        THEN IntObject(<<255, 255, 255, 255, 0, 0, 0, 0>>)
                        ELSE IntObject(<<0, 0, 0, 0, 0, 0, 0, 0>>)
         /\ warnings' = IF arg[0].string = Linux THEN warnings + 1 ELSE warnings
         /\ stack_ptr = -1 /\ opstack_ptr = 0
         /\ UNCHANGED <<i, stack, stack_ptr, opstack, opstack_ptr, method>>]_vars

C11_Witness ==
    /\ pc = "done" /\ last.op = "OSI" /\ frames # <<>>
    /\ arg[0] = StrObject(Windows20(<<49, 53>>))
    /\ retvalue = IntObject(<<255, 255, 255, 255, 0, 0, 0, 0>>)
    /\ warnings = 1 /\ stack_ptr = -1 /\ opstack_ptr = 0

(* 64-bit arithmetic on the sequence of the 64 bits of a value, least *)
(* significant first: addition by ripple carry, multiplication by     *)
(* shift and add, shifts by moving the bits.                          *)
Bits64(v) == [k \in 1..64 |-> (v[((k - 1) \div 8) + 1] \div Pow2((k - 1) % 8)) % 2]

RECURSIVE AddBits(_, _, _, _)
AddBits(x, y, k, c) ==
    IF k > 64 THEN <<>>
    ELSE <<(x[k] + y[k] + c) % 2>> \o AddBits(x, y, k + 1, (x[k] + y[k] + c) \div 2)

ShlBits(x, n) == [k \in 1..64 |-> IF k > n THEN x[k - n] ELSE 0]

ShrBits(x, n) == [k \in 1..64 |-> IF k + n <= 64 THEN x[k + n] ELSE 0]

ZeroBits == [k \in 1..64 |-> 0]

(* the sum of x * 2^(j - 1) over the bits j in lo..hi of y that are set, *)
(* the range being halved until it is one bit                            *)
RECURSIVE MulBits(_, _, _, _)
MulBits(x, y, lo, hi) ==
    IF lo = hi THEN (IF y[lo] = 1 THEN ShlBits(x, lo - 1) ELSE ZeroBits)
    ELSE LET mid == (lo + hi) \div 2
         IN AddBits(MulBits(x, y, lo, mid), MulBits(x, y, mid + 1, hi), 1, 0)

(* r is the value of a op b in 64 bits *)
IsResult64(opcode, a, b, r) ==
    LET x == Bits64(a)
        y == Bits64(b)
        z == Bits64(r)
    IN CASE opcode = ADD_OP -> z = AddBits(x, y, 1, 0)
         [] opcode = SUBTRACT_OP -> AddBits(z, y, 1, 0) = x
         [] opcode = MULTIPLY_OP -> z = MulBits(x, y, 1, 64)
         [] opcode = AND_OP -> z = [k \in 1..64 |-> IF x[k] = 1 /\ y[k] = 1 THEN 1 ELSE 0]
         [] opcode = OR_OP -> z = [k \in 1..64 |-> IF x[k] = 1 \/ y[k] = 1 THEN 1 ELSE 0]
         [] opcode = XOR_OP -> z = [k \in 1..64 |-> IF x[k] # y[k] THEN 1 ELSE 0]
         [] opcode = NOT_OP -> z = [k \in 1..64 |-> 1 - x[k]]
         [] opcode = SHL_OP -> ~ShiftCountDefined(b) \/ z = ShlBits(x, b[1])
         [] opcode = SHR_OP -> ~ShiftCountDefined(b) \/ z = ShrBits(x, b[1])

(* C12: a reduction of Add, Subtract, Multiply, And, Or, Xor, Not, or *)
(* of ShiftLeft or ShiftRight by less than 64, yields an Integer with *)
(* the 64-bit value of the operation on the operands' integers.       *)
C12_ReducerArithmetic ==
    [][Running /\ AtReduce /\ item.op_opcode \in (BinaryOps \cup {NOT_OP})
       /\ last'.op = "Reduce" /\ pc' = "run" =>
         /\ last'.val.type = "Integer"
         /\ IsResult64(item.op_opcode, opstack[item.op_opstack + 1].integer,
                       IF item.op_opcode = NOT_OP THEN Zero64
                       ELSE opstack[item.op_opstack + 2].integer,
                       last'.val.integer)]_vars

C12_Witness ==
    /\ last.op = "Reduce" /\ pc = "run"
    /\ method = Binary(MULTIPLY_OP, QWordConst(<<239, 205, 171, 137, 103, 69, 35, 1>>),
                       QWordConst(<<16, 50, 84, 118, 152, 186, 220, 254>>), Local0)
    /\ last.val = IntObject(<<240, 140, 97, 229, 143, 216, 54, 34>>)
    /\ local[0] = last.val

(* The steps that dispatch a value-producing item. *)
ValueSteps ==
    {"Zero", "One", "Ones", "Integer", "Arg", "Local", "Name", "Package", "Default"}

(* C13: with a MethodContext, Loop or Cond on top, the dispatch of a     *)
(* value-producing item changes nothing but the cursor, which advances;  *)
(* such a dispatch pushes a value only when the top scope is an Op, and  *)
(* then exactly one.                                                     *)
C13_StatementValuesDiscarded ==
    [][Running /\ last'.op \in ValueSteps /\ pc' = "run" =>
         /\ item.kind \in {"Method", "Loop", "Cond"} =>
               /\ UNCHANGED <<opstack_ptr, opstack, stack, stack_ptr, local, arg,
                              retvalue, method>>
               /\ i' > i
         /\ opstack_ptr' # opstack_ptr =>
               /\ item.kind = "Op"
               /\ opstack_ptr' = opstack_ptr + 1
               /\ opstack' = SubSeq(opstack, 1, opstack_ptr) \o <<last'.val>>]_vars

C13_Witness ==
    /\ pc = "run" /\ last.op = "Default" /\ item.kind = "Cond"
    /\ method = If(One, <<ONES_OP, LOCAL0_OP, ARG0_OP>> \o <<PACKAGE_OP, 2, 0>> \o NAM0
                        \o StringConst(Linux))
    /\ i = size /\ opstack_ptr = 0 /\ opstack = <<>>

(* The steps that push a scope. *)
ScopeSteps == {"Enter", "While", "If", "UnaryOp", "BinaryOp"}

(* C14: a step that pushes a scope onto a stack of 16 scopes, and a      *)
(* dispatch that pushes an operand onto 16 operands, ends the run in a   *)
(* fatal error and writes nothing: neither stack ever holds more than 16 *)
(* entries.                                                              *)
C14_OverflowIsFatal ==
    [][/\ last'.op \in ScopeSteps /\ stack_ptr = 15 =>
            pc' = "panic" /\ stack' = stack
       /\ last'.op \in ValueSteps /\ item.kind = "Op" /\ opstack_ptr = 16 =>
            /\ pc' = "panic" /\ err' = "operand stack overflow"
            /\ opstack' = opstack
       /\ Len(stack') <= 16 /\ Len(opstack') <= 16]_vars

C14_Witness ==
    /\ pc = "panic" /\ err = "execution engine stack overflow"
    /\ last.op = "While" /\ last.sp = 15 /\ Len(stack) = 16
    /\ \A k \in 2..16 : stack[k].kind = "Loop"

(* C15: the dispatch of a Noop moves the cursor by exactly one byte and *)
(* pushes no value, whatever the top scope is.                          *)
C15_NopAdvancesOne ==
    last.op = "Nop" /\ pc = "run" => i = last.at + 1 /\ opstack_ptr = last.osp

(* C16: at every tick with a Loop on the stack, the nearest Loop's       *)
(* predicate has been evaluated non-zero since the cursor was last set   *)
(* to it, unless that Loop is on top with the cursor at its predicate;   *)
(* with the Loop on top and the cursor at its predicate the tick         *)
(* evaluates the predicate, and a zero predicate puts the cursor at the  *)
(* loop's end and pops the Loop in that tick; with the Loop on top and   *)
(* the cursor at its end the tick sets the cursor back to the predicate. *)
C16_PredicateBeforeBody ==
    /\ []((Running /\ FindItem("Loop", 0) >= 0
             /\ ~(item.kind = "Loop" /\ i = item.loop_pred))
           => (stack_ptr - FindItem("Loop", 0)) \in last.armed)
    /\ [][/\ (Running /\ item.kind = "Loop" /\ i = item.loop_pred /\ pc' = "run") =>
               /\ last'.op = "LoopPredicate"
               /\ IF last'.val.integer = <<0, 0, 0, 0, 0, 0, 0, 0>>
                  THEN /\ i' = item.loop_end
                       /\ stack_ptr' = stack_ptr - 1
                       /\ stack' = SubSeq(stack, 1, stack_ptr)
                  ELSE i' > i /\ UNCHANGED <<stack, stack_ptr>>
          /\ (Running /\ item.kind = "Loop" /\ i = item.loop_end /\ i # item.loop_pred) =>
               /\ i' = item.loop_pred
               /\ pc' = "run"
               /\ UNCHANGED <<stack, stack_ptr, opstack, opstack_ptr>>]_vars

C16_Witness ==
    /\ pc = "run" /\ last.op = "LoopPredicate"
    /\ last.val = IntObject(U64(0)) /\ local[1] = IntObject(U64(1))
    /\ stack_ptr = 0 /\ last.sp = 1 /\ Byte(i, 0) = RETURN_OP

(* The index in state->stack of the topmost Loop scope. *)
NearestLoop ==
    CHOOSE k \in 0..stack_ptr :
        /\ stack[k + 1].kind = "Loop"
        /\ \A m \in (k + 1)..stack_ptr : stack[m + 1].kind # "Loop"

(* The scopes at the indices 0..n - 1. *)
ScopesBelow(n) == [k \in 1..n |-> stack[k]]

(* C17: a Continue puts the cursor at the predicate of the topmost Loop    *)
(* scope and pops exactly the scopes above it; a Break puts the cursor at  *)
(* its end and pops it and exactly the scopes above it; the scopes below   *)
(* it stay as they are.                                                    *)
C17_NearestLoop ==
    [][/\ (last'.op = "Continue" /\ pc' = "run") =>
            /\ i' = stack[NearestLoop + 1].loop_pred
            /\ stack_ptr' = NearestLoop
            /\ stack' = ScopesBelow(NearestLoop + 1)
       /\ (last'.op = "Break" /\ pc' = "run") =>
            /\ i' = stack[NearestLoop + 1].loop_end
            /\ stack_ptr' = NearestLoop - 1
            /\ stack' = ScopesBelow(NearestLoop)]_vars

C17_Witness ==
    /\ pc = "run" /\ last.op = "Continue" /\ last.sp = 4 /\ stack_ptr = 2
    /\ stack[2].kind = "Loop" /\ stack[3].kind = "Loop"
    /\ i = stack[3].loop_pred /\ i # stack[2].loop_pred

(* C18: the reduction of the Op scope on top pops exactly its operands,  *)
(* pushes exactly the reducer's result if the scope wants it and nothing *)
(* otherwise, and pops the scope: the operand stack pointer is then the  *)
(* scope's base plus one if the result is wanted, the base otherwise;    *)
(* the result is wanted exactly when the scope below is an Op, so that   *)
(* an operator that is an operand gives its parent one value and an      *)
(* operator that is a statement leaves the operand stack as it found it. *)
C18_ReductionBalance ==
    [][Running /\ AtReduce /\ last'.op = "Reduce" /\ pc' = "run" =>
         /\ opstack_ptr' = item.op_opstack + (IF item.op_want_result THEN 1 ELSE 0)
         /\ opstack' = [k \in 1..item.op_opstack |-> opstack[k]]
                           \o (IF item.op_want_result THEN <<last'.val>> ELSE <<>>)
         /\ last'.val \in acpi_exec_reduce(item.op_opcode,
                               [k \in 1..item.op_num_operands |->
                                   opstack[item.op_opstack + k]])
         /\ stack_ptr' = stack_ptr - 1
         /\ stack' = ScopesBelow(stack_ptr)
         /\ item.op_want_result <=> (stack_ptr >= 1 /\ stack[stack_ptr].kind = "Op")]_vars

C18_Witness ==
    /\ pc = "run" /\ last.op = "Reduce" /\ item.kind = "Op"
    /\ item.op_num_operands = 2 /\ item.op_opstack = 1
    /\ last.osp = 4 /\ opstack_ptr = 3 /\ opstack[3] = last.val

(* The offset of argument number n of the invocation at the cursor. *)
RECURSIVE ArgOffset(_, _)
ArgOffset(n, pb) ==
    IF n = 0 THEN i + acpins_resolve_path(i, pb).bytes
    ELSE ArgOffset(n - 1, pb) + acpi_eval_object(ArgOffset(n - 1, pb), pb).bytes

(* C19: an invocation starts the callee on an empty execution stack, an  *)
(* empty operand stack, zeroed locals and the arguments 0..argc - 1 read *)
(* one after the other from the call site in the caller's state, the     *)
(* others zero, and sets the caller aside as it is; the caller is taken  *)
(* up again only when the callee is done, with its execution stack, its  *)
(* locals and its arguments as they were, the cursor past the arguments, *)
(* and on its operand stack the callee's return value pushed if the call *)
(* was made with an Op scope on top, nothing otherwise.                  *)
C19_InvocationFrame ==
    [][/\ (pc = "run" /\ last'.op = "Invoke" /\ pc' = "entry") =>
            /\ stack' = <<>> /\ stack_ptr' = -1
            /\ opstack' = <<>> /\ opstack_ptr' = 0
            /\ local' = [k \in 0..7 |-> ZeroObject]
            /\ retvalue' = ZeroObject
            /\ i' = 0
            /\ Len(frames') = Len(frames) + 1
            /\ SubSeq(frames', 1, Len(frames)) = frames
            /\ LET f == frames'[Len(frames')]
               IN /\ f.method = method /\ f.handle = handle
                  /\ f.stack = stack /\ f.stack_ptr = stack_ptr
                  /\ f.opstack = opstack /\ f.opstack_ptr = opstack_ptr
                  /\ f.local = local /\ f.arg = arg /\ f.retvalue = retvalue
                  /\ f.want <=> (item.kind = "Op")
                  /\ \E pb \in PastBytes :
                        LET node == acpi_exec_resolve(acpins_resolve_path(i, pb).path)
                        IN /\ node.type = "Method"
                           /\ method' = node.body
                           /\ handle' = node.path
                           /\ f.i = ArgOffset(node.argc, pb)
                           /\ \A n \in 0..6 :
                                 arg'[n] = IF n < node.argc
                                           THEN acpi_eval_object(ArgOffset(n, pb), pb).value
                                           ELSE ZeroObject
       /\ (frames' # frames) =>
            \/ pc = "run" /\ last'.op = "Invoke" /\ pc' = "entry"
            \/ pc = "done" /\ last'.op = "InvokeReturn"
       /\ (pc = "done" /\ frames # <<>> /\ last'.op = "InvokeReturn") =>
            LET f == frames[Len(frames)]
            IN /\ frames' = SubSeq(frames, 1, Len(frames) - 1)
               /\ method' = f.method /\ handle' = f.handle
               /\ stack' = f.stack /\ stack_ptr' = f.stack_ptr
               /\ local' = f.local /\ arg' = f.arg /\ retvalue' = f.retvalue
               /\ i' = f.i
               /\ pc' = "run" =>
                     /\ opstack' = f.opstack \o (IF f.want THEN <<retvalue>> ELSE <<>>)
                     /\ opstack_ptr' = f.opstack_ptr + (IF f.want THEN 1 ELSE 0)
               /\ pc' # "run" =>
                     /\ pc' = "panic" /\ f.want /\ f.opstack_ptr = OPSTACK_SIZE
                     /\ opstack' = f.opstack /\ opstack_ptr' = f.opstack_ptr]_vars

C19_Witness ==
    /\ pc = "run" /\ last.op = "InvokeReturn" /\ Len(frames) = 1
    /\ frames[1].method = Store(MTHC \o ByteConst(9), Local0) \o Return(Local0)
    /\ arg[0] = IntObject(U64(9))
    /\ last.val = IntObject(U64(8))
    /\ item.kind = "Op" /\ opstack_ptr = 1 /\ opstack = <<last.val>>
    /\ local = [k \in 0..7 |-> ZeroObject]

(* The ticks that inspect method[i]: the Else check of a Cond that was *)
(* not taken, and the dispatch of a name or an opcode.                 *)
InspectsByte == Running /\ (AtCondNotTaken \/ Dispatching)

(* C20: a tick of a legal body that inspects method[i], in the Else     *)
(* check of the Cond prologue or in the dispatch of a name or an opcode, *)
(* finds i < size.                                                       *)
C20_ReadsInsideBody == Legal /\ InspectsByte => i < size

(* C21: at every tick boundary of a legal body, every taken Cond scope *)
(* on the execution stack has i <= cond_end and every Loop scope has   *)
(* i <= loop_end.                                                      *)
C21_ScopesWithinRange ==
    Legal /\ AtTick =>
        \A k \in 1..(stack_ptr + 1) :
            /\ (stack[k].kind = "Cond" /\ stack[k].cond_taken) => i <= stack[k].cond_end
            /\ stack[k].kind = "Loop" => i <= stack[k].loop_end

(* C22: at every tick boundary with no Op scope on the execution stack *)
(* the operand stack is empty.                                         *)
C22_NoOrphanedOperands ==
    AtTick /\ (\A k \in 1..(stack_ptr + 1) : stack[k].kind # "Op") => opstack_ptr = 0

(* C23: the run of a body without While and without method invocation, *)
(* the helpers consuming at least one byte, ends: it reaches the empty  *)
(* execution stack and returns, or a fatal error; every tick moves the  *)
(* cursor forward or pops a scope or is fatal.                          *)
C23_Terminates ==
    /\ <>(pc \in {"done", "panic"})
    /\ [][/\ (pc = "run" /\ stack_ptr >= 0 /\ pc' = "run") =>
               (i' > i \/ stack_ptr' < stack_ptr)
          /\ (pc = "delegated" /\ pc' = "run") =>
               (i' > i /\ stack_ptr' = stack_ptr)]_vars

====
